---- MODULE Spec2Model ----
(***************************************************************************)
(* A model of simfinweb.py: the JSON-to-object mapper APIResponseObject,   *)
(* the key normaliser get_key_name, and the facade operations              *)
(* get_available_statements, get_standardised_financial_statement and      *)
(* get_aggregated_shares_outstanding of class API.                         *)
(*                                                                         *)
(* Python values are tagged records.  A Python str is a sequence of        *)
(* one-character strings, so that normalisation, sorting and parsing work  *)
(* on characters as the code does.                                         *)
(***************************************************************************)
EXTENDS Integers, Sequences, FiniteSets, TLC

VARIABLES
    call,                  \* name of the facade operation invoked, "" before
    pc,                    \* position of the running facade call
    response,              \* JSON body of the first transport reply
    result,                \* value returned to the caller, NoResult before
    outcome,               \* "none", "returned", or the exception raised
    available_statements,  \* local of get_standardised_financial_statement
    end_index,             \* local: negative index found by the scan
    inspected,             \* negative indices the scan has read, in order
    valid_year_keys,       \* local: the slice of the bs year directory
    valid_years,           \* local: the parsed integer years
    year_count,            \* argument `years`
    supplied,              \* argument fin_statements_input as the caller gave it
    fin_statements_input,  \* the statement types to fetch, after defaulting
    fs_pos,                \* loop position in fin_statements_input
    yr_pos,                \* loop position in valid_years
    requests,              \* params of the standardised requests issued
    replies,               \* what came back for each: a JSON body or an exception
    f_statements,          \* local dict of get_standardised_financial_statement
    items                  \* local dict of get_aggregated_shares_outstanding

vars == <<call, pc, response, result, outcome, available_statements, end_index,
          inspected, valid_year_keys, valid_years, year_count, supplied,
          fin_statements_input, fs_pos, yr_pos, requests, replies,
          f_statements, items>>

---------------------------------------------------------------------------
(* Python values *)

PNone == [t |-> "none"]
PInt(n) == [t |-> "int", n |-> n]
PStr(s) == [t |-> "str", s |-> s]
PList(xs) == [t |-> "list", xs |-> xs]
\* a dict keeps its entries in insertion order; entry == [k |-> key, v |-> value]
PDict(es) == [t |-> "dict", es |-> es]
\* a datetime, as dateutil.parser.parse returns it
PDate(year, month, day) == [t |-> "datetime", year |-> year, month |-> month, day |-> day]
\* an instance of APIResponseObject: its attribute dictionary, `keys` included
PObj(d) == [t |-> "obj", d |-> d]
\* an exception propagating out of a call
Raise(e) == [t |-> "raise", e |-> e]

NoResult == [t |-> "noresult"]

IsRaise(v) == v.t = "raise"

\* F applied to the value of e, which is computed once
Bind(e, F(_)) == CHOOSE y \in {F(x) : x \in {e}} : TRUE

\* the rest of a computation that stops at the first exception
Then(e, F(_)) == Bind(e, LAMBDA x : IF IsRaise(x) THEN x ELSE F(x))

\* Python truthiness of the scalar values the model uses
Truthy(v) ==
    CASE v.t = "none" -> FALSE
      [] v.t = "int" -> v.n # 0
      [] v.t = "str" -> v.s # <<>>
      [] v.t = "list" -> v.xs # <<>>
      [] v.t = "dict" -> v.es # <<>>
      [] OTHER -> TRUE

---------------------------------------------------------------------------
(* Strings *)

Digits == <<"0", "1", "2", "3", "4", "5", "6", "7", "8", "9">>

DigitChars == {Digits[i] : i \in 1..10}

DigitVal(c) == (CHOOSE i \in 1..10 : Digits[i] = c) - 1

\* "{}".format(n) for a non-negative int
RECURSIVE format(_)
format(n) == IF n < 10 THEN <<Digits[n + 1]>>
             ELSE format(n \div 10) \o <<Digits[(n % 10) + 1]>>

\* str.split("_")[-1]: the part after the last underscore
RECURSIVE split_last(_)
split_last(s) ==
    IF s = <<>> THEN <<>>
    ELSE IF s[Len(s)] = "_" THEN <<>>
    ELSE split_last(SubSeq(s, 1, Len(s) - 1)) \o <<s[Len(s)]>>

\* int(s) for a str: decimal digits only here; anything else is a ValueError
IsDecimal(s) == s # <<>> /\ \A i \in 1..Len(s) : s[i] \in DigitChars

RECURSIVE int(_)
int(s) == IF Len(s) = 1 THEN DigitVal(s[1])
          ELSE 10 * int(SubSeq(s, 1, Len(s) - 1)) + DigitVal(s[Len(s)])

\* the printable ASCII characters, from code point 32 (the quotes, the
\* backslash and the backtick, which no str of the model holds, by name)
Ascii ==
    << " ", "!", "QUOTE", "#", "$", "%", "&", "APOSTROPHE", "(", ")", "*", "+",
       ",", "-", ".", "/", "0", "1", "2", "3", "4", "5", "6", "7",
       "8", "9", ":", ";", "<", "=", ">", "?", "@", "A", "B", "C",
       "D", "E", "F", "G", "H", "I", "J", "K", "L", "M", "N", "O",
       "P", "Q", "R", "S", "T", "U", "V", "W", "X", "Y", "Z", "[",
       "BACKSLASH", "]", "^", "_", "BACKTICK", "a", "b", "c", "d", "e", "f", "g",
       "h", "i", "j", "k", "l", "m", "n", "o", "p", "q", "r", "s",
       "t", "u", "v", "w", "x", "y", "z", "{", "|", "}", "~">>

\* ord(c)
Ord(c) == 31 + (CHOOSE i \in 1..Len(Ascii) : Ascii[i] = c)

\* s < t for Python str: lexicographic by code point
RECURSIVE str_lt(_, _)
str_lt(s, u) ==
    IF u = <<>> THEN FALSE
    ELSE IF s = <<>> THEN TRUE
    ELSE IF s[1] = u[1] THEN str_lt(Tail(s), Tail(u))
    ELSE Ord(s[1]) < Ord(u[1])

\* list.sort() of a list of str values: insertion into a sorted list
RECURSIVE insert_sorted(_, _)
insert_sorted(x, xs) ==
    IF xs = <<>> THEN <<x>>
    ELSE IF str_lt(x.s, xs[1].s) THEN <<x>> \o xs
    ELSE Bind(Tail(xs), LAMBDA rest : <<xs[1]>> \o insert_sorted(x, rest))

RECURSIVE sort(_)
sort(xs) ==
    IF xs = <<>> THEN <<>>
    ELSE Bind(sort(SubSeq(xs, 1, Len(xs) - 1)),
              LAMBDA front : insert_sorted(xs[Len(xs)], front))

---------------------------------------------------------------------------
(* The str literals of the source, and of the replies, as character sequences *)

s_fyear == <<"f", "y", "e", "a", "r">>

s_period == <<"p", "e", "r", "i", "o", "d">>

s_year_range == <<"y", "e", "a", "r", "_", "r", "a", "n", "g", "e">>

s_Q4 == <<"Q", "4">>

s_FY == <<"F", "Y">>

s_bs == <<"b", "s">>

s_pl == <<"p", "l">>

s_cf == <<"c", "f">>

s_dates == <<"d", "a", "t", "e", "s">>

s_line_items == <<"l", "i", "n", "e", "_", "i", "t", "e", "m", "s">>

s_periodEndDate == <<"p", "e", "r", "i", "o", "d", "E", "n", "d", "D", "a", "t", "e">>

s_values == <<"v", "a", "l", "u", "e", "s">>

s_standardisedName == <<"s", "t", "a", "n", "d", "a", "r", "d", "i", "s", "e", "d", "N", "a", "m", "e">>

s_uid == <<"u", "i", "d">>

s_parent_tid == <<"p", "a", "r", "e", "n", "t", "_", "t", "i", "d">>

s_tid == <<"t", "i", "d">>

s_valueCalculated == <<"v", "a", "l", "u", "e", "C", "a", "l", "c", "u", "l", "a", "t", "e", "d">>

s_valueChosen == <<"v", "a", "l", "u", "e", "C", "h", "o", "s", "e", "n">>

s_valueAssigned == <<"v", "a", "l", "u", "e", "A", "s", "s", "i", "g", "n", "e", "d">>

s_displayLevel == <<"d", "i", "s", "p", "l", "a", "y", "L", "e", "v", "e", "l">>

s_title == <<"t", "i", "t", "l", "e">>

s_display_level == <<"d", "i", "s", "p", "l", "a", "y", "_", "l", "e", "v", "e", "l">>

s_value_calculated == <<"v", "a", "l", "u", "e", "_", "c", "a", "l", "c", "u", "l", "a", "t", "e", "d">>

s_value_chosen == <<"v", "a", "l", "u", "e", "_", "c", "h", "o", "s", "e", "n">>

s_value_assigned == <<"v", "a", "l", "u", "e", "_", "a", "s", "s", "i", "g", "n", "e", "d">>

s_date == <<"d", "a", "t", "e">>

s_figure == <<"f", "i", "g", "u", "r", "e">>

s_measure == <<"m", "e", "a", "s", "u", "r", "e">>

s_type == <<"t", "y", "p", "e">>

\* texts of periodEndDate in the replies
d_2019_12_31 == <<"2", "0", "1", "9", "-", "1", "2", "-", "3", "1">>

d_2020_12_31 == <<"2", "0", "2", "0", "-", "1", "2", "-", "3", "1">>

d_n_a == <<"n", "/", "a">>

s_value == <<"v", "a", "l", "u", "e">>

\* figures, measures and share types of the shares/aggregated replies
s_common == <<"c", "o", "m", "m", "o", "n">>

s_preferred == <<"p", "r", "e", "f", "e", "r", "r", "e", "d">>

s_point_in_time == <<"p", "o", "i", "n", "t", "-", "i", "n", "-", "t", "i", "m", "e">>

s_basic == <<"b", "a", "s", "i", "c">>

s_diluted == <<"d", "i", "l", "u", "t", "e", "d">>

s_Q1 == <<"Q", "1">>

---------------------------------------------------------------------------
(* get_key_name *)

\* re.sub(" ", "_", key) on one character
sub1(c) == IF c = " " THEN "_" ELSE c

\* re.sub("[-\:\.\&\(\)\,]", "_", sub1) on one character
sub2(c) == IF c \in {"-", ":", ".", "&", "(", ")", ","} THEN "_" ELSE c

get_key_name(key) ==
    IF key.t = "int" THEN PStr(<<"_">> \o format(key.n))
    ELSE IF key.t = "str" THEN PStr([i \in 1..Len(key.s) |-> sub2(sub1(key.s[i]))])
    ELSE key

---------------------------------------------------------------------------
(* dict *)

\* key in d
has_key(d, key) == \E i \in 1..Len(d.es) : d.es[i].k = key

\* d[key], for a key in d
subscript(d, key) == d.es[CHOOSE i \in 1..Len(d.es) : d.es[i].k = key].v

\* d[key] = v: a new key goes last, a known key keeps its place
assign(d, key, v) ==
    IF has_key(d, key)
    THEN PDict([i \in 1..Len(d.es) |-> IF d.es[i].k = key THEN [k |-> key, v |-> v]
                                       ELSE d.es[i]])
    ELSE PDict(Append(d.es, [k |-> key, v |-> v]))

---------------------------------------------------------------------------
(* class APIResponseObject *)

\* the attribute name "keys"
KeysAttr == <<"k", "e", "y", "s">>

hasattr(obj, name) == name \in DOMAIN obj.d

getattr(obj, name) == obj.d[name]

setattr(obj, name, v) == PObj((name :> v) @@ obj.d)

\* an object without attributes, before __init__ runs
object == PObj([a \in {} |-> PNone])

RECURSIVE APIResponseObject(_)
RECURSIVE init_members(_)
RECURSIVE init_entries(_, _)

\* lines 29-34: _arr for a list value v; the constructor of a member may raise
init_members(xs) ==
    IF xs = <<>> THEN PList(<<>>)
    ELSE LET member == xs[Len(xs)]
         IN Then(init_members(SubSeq(xs, 1, Len(xs) - 1)), LAMBDA front :
            Then(IF member.t = "dict" THEN APIResponseObject(member) ELSE member,
                 LAMBDA built : PList(Append(front.xs, built))))

\* lines 24-39: one iteration of the loop over api_response.items()
init_entry(self, e) ==
    LET key_name == get_key_name(e.k)
        keys == getattr(self, KeysAttr)
    IN IF keys.t # "list" THEN Raise("AttributeError")
       ELSE LET appended == setattr(self, KeysAttr, PList(Append(keys.xs, key_name)))
            IN Then(IF e.v.t = "dict" THEN APIResponseObject(e.v)
                    ELSE IF e.v.t = "list" THEN init_members(e.v.xs)
                    ELSE e.v,
                    LAMBDA value : IF key_name.t # "str" THEN Raise("TypeError")
                                   ELSE setattr(appended, key_name.s, value))

init_entries(self, es) ==
    IF es = <<>> THEN self
    ELSE Then(init_entry(self, es[1]), LAMBDA next :
         Bind(Tail(es), LAMBDA rest : init_entries(next, rest)))

\* APIResponseObject.__init__
APIResponseObject(api_response) ==
    init_entries(setattr(object, KeysAttr, PList(<<>>)), api_response.es)

---------------------------------------------------------------------------
(* The client before any call, and how a call ends *)

Init ==
    /\ call = ""
    /\ pc = "idle"
    /\ response = NoResult
    /\ result = NoResult
    /\ outcome = "none"
    /\ available_statements = NoResult
    /\ end_index = 0
    /\ inspected = <<>>
    /\ valid_year_keys = <<>>
    /\ valid_years = <<>>
    /\ year_count = 0
    /\ supplied = PNone
    /\ fin_statements_input = <<>>
    /\ fs_pos = 0
    /\ yr_pos = 0
    /\ requests = <<>>
    /\ replies = <<>>
    /\ f_statements = PDict(<<>>)
    /\ items = PDict(<<>>)

fetch_locals == <<available_statements, end_index, inspected, valid_year_keys,
                  valid_years, year_count, supplied, fin_statements_input,
                  fs_pos, yr_pos, requests, replies, f_statements>>

\* the call returns value v, or the exception v propagates to the caller
Finish(v) ==
    /\ pc' = "done"
    /\ \E x \in {v} :
          /\ result' = IF IsRaise(x) THEN NoResult ELSE x
          /\ outcome' = IF IsRaise(x) THEN x.e ELSE "returned"

---------------------------------------------------------------------------
(* get_id_for_ticker, get_id_for_name, get_financial_ratios: one request,   *)
(* then [APIResponseObject(i) for i in _response.json()]                    *)

MaxKeyLen == 2
MaxEntries == 2

KeyChars == {"a", "1", " ", "-", "/"}

RECURSIVE StringsUpTo(_, _)
StringsUpTo(chars, n) ==
    IF n = 0 THEN {<<>>}
    ELSE LET shorter == StringsUpTo(chars, n - 1)
         IN shorter \cup {Append(s, c) : s \in shorter, c \in chars}

\* keys a JSON object of a reply may carry
JsonKeys == {PStr(s) : s \in StringsUpTo(KeyChars, MaxKeyLen) \cup {KeysAttr}}

Entry(k, v) == [k |-> k, v |-> v]

\* values a JSON object of a reply may carry
JsonValues ==
    { PInt(1), PNone,
      PDict(<<Entry(PStr(<<"a", " ">>), PInt(2))>>),
      PList(<<PInt(3), PDict(<<Entry(PStr(<<"-">>), PInt(4))>>)>>) }

RECURSIVE JsonEntryLists(_)
JsonEntryLists(n) ==
    IF n = 0 THEN {<<>>}
    ELSE LET shorter == JsonEntryLists(n - 1)
         IN shorter \cup
            { Append(es, Entry(k, v)) :
                es \in {x \in shorter : Len(x) = n - 1},
                k \in {y \in JsonKeys : TRUE}, v \in JsonValues }

\* a dict has no two equal keys
DistinctKeys(es) == \A i, j \in 1..Len(es) : es[i].k = es[j].k => i = j

\* the JSON objects of up to n entries
JsonObjects(n) == {PDict(es) : es \in {x \in JsonEntryLists(n) : DistinctKeys(x)}}

\* lines 85-86, 100-101, 181-184
get_id_for_ticker ==
    /\ pc = "idle"
    /\ \E obj \in JsonObjects(MaxEntries) :
          /\ response' = PList(<<obj>>)
          /\ Finish(init_members(<<obj>>))
    /\ call' = "get_id_for_ticker"
    /\ UNCHANGED <<fetch_locals, items>>

\* the request fails in the transport
get_id_for_ticker_fails ==
    /\ pc = "idle"
    /\ Finish(Raise("TransportError"))
    /\ call' = "get_id_for_ticker"
    /\ UNCHANGED <<response, fetch_locals, items>>

NextTree == get_id_for_ticker \/ get_id_for_ticker_fails

SpecTree == Init /\ [][NextTree]_vars

---------------------------------------------------------------------------
(* get_available_statements *)

\* the running state of the loops: the object being filled and the set `years`
Acc(obj, years) == [t |-> "acc", obj |-> obj, years |-> years]

\* key_name not in new_structure.keys
not_in(x, xs) == \A j \in 1..Len(xs) : xs[j] # x

\* obj.keys.append(x)
keys_append(obj, x) ==
    IF getattr(obj, KeysAttr).t # "list" THEN Raise("AttributeError")
    ELSE setattr(obj, KeysAttr, PList(Append(getattr(obj, KeysAttr).xs, x)))

\* lines 147-150: the year key is registered the first time it is met
register_year(acc, key_name, fyear) ==
    IF not_in(key_name, getattr(acc.obj, KeysAttr).xs)
    THEN Acc(keys_append(setattr(acc.obj, key_name.s, APIResponseObject(PDict(<<>>))),
                         key_name),
             acc.years \cup {fyear.n})
    ELSE acc

\* lines 151-152: the record is stored under its raw period, and the period
\* appended to the directory of the year
store_period(new_structure, key_name, i) ==
    LET period == getattr(i, s_period)
    IN Bind(setattr(getattr(new_structure, key_name.s), period.s, i), LAMBDA stored :
       Then(keys_append(stored, period),
            LAMBDA listed : setattr(new_structure, key_name.s, listed)))

\* lines 146-152: one record i of a statement type
index_instance(acc, i) ==
    IF i.t # "obj" THEN Raise("AttributeError")
    ELSE IF ~hasattr(i, s_fyear) \/ ~hasattr(i, s_period) THEN Raise("AttributeError")
    ELSE LET fyear == getattr(i, s_fyear)
             key_name == get_key_name(fyear)
         IN Bind(register_year(acc, key_name, fyear), LAMBDA registered :
            Then(store_period(registered.obj, key_name, i),
                 LAMBDA stored : Acc(stored, registered.years)))

RECURSIVE index_instances(_, _)
index_instances(acc, instances) ==
    IF instances = <<>> THEN acc
    ELSE Then(index_instance(acc, instances[1]), LAMBDA next :
         Bind(Tail(instances), LAMBDA rest : index_instances(next, rest)))

\* new_structure.keys.sort()
keys_sort(obj) == setattr(obj, KeysAttr, PList(sort(getattr(obj, KeysAttr).xs)))

\* lines 143-154: one statement type fs of available_statements.keys
index_statement(acc, fs) ==
    LET instances == getattr(acc.obj, fs.s)
    IN IF instances.t # "list" THEN Raise("TypeError")
       ELSE Then(index_instances(Acc(APIResponseObject(PDict(<<>>)), acc.years),
                                 instances.xs),
                 LAMBDA filled : Acc(setattr(acc.obj, fs.s, keys_sort(filled.obj)),
                                     filled.years))

RECURSIVE index_statements(_, _)
index_statements(acc, keys) ==
    IF keys = <<>> THEN acc
    ELSE Then(index_statement(acc, keys[1]), LAMBDA next :
         Bind(Tail(keys), LAMBDA rest : index_statements(next, rest)))

\* sorted(list(years))[0] and [-1]
Min(S) == CHOOSE x \in S : \A y \in S : x <= y

Max(S) == CHOOSE x \in S : \A y \in S : x >= y

\* lines 157-161
attach_year_range(acc) ==
    IF acc.years = {} THEN Raise("IndexError")
    ELSE setattr(acc.obj, s_year_range,
                 PList(<<PInt(Min(acc.years)), PInt(Max(acc.years))>>))

\* lines 140-161, for the JSON body of the reply
get_available_statements(json) ==
    Then(APIResponseObject(json), LAMBDA built :
    Then(index_statements(Acc(built, {}), getattr(built, KeysAttr).xs),
         LAMBDA indexed : attach_year_range(indexed)))

\* the fiscal years, period codes and statement-type codes of the replies
FYears == {999, 2019, 2020}

Periods == {s_Q4, s_FY}

MaxRecords == 2

\* one availability record of the statements/list reply
Record(fyear, period) ==
    PDict(<<Entry(PStr(s_fyear), PInt(fyear)), Entry(PStr(s_period), PStr(period))>>)

RECURSIVE RecordLists(_)
RecordLists(n) ==
    IF n = 0 THEN {<<>>}
    ELSE LET shorter == RecordLists(n - 1)
         IN shorter \cup
            { Append(rs, Record(y, p)) :
                rs \in {x \in shorter : Len(x) = n - 1}, y \in FYears, p \in Periods }

\* the statements/list replies over the given sequences of statement types
FlatResponses(codes, n) ==
    UNION { { PDict([i \in 1..Len(c) |-> Entry(PStr(c[i]), PList(rs[i]))]) :
                rs \in [1..Len(c) -> RecordLists(n)] } : c \in codes }

IndexCodes == {<<>>, <<s_bs>>, <<s_pl>>, <<s_bs, s_pl>>, <<s_pl, s_bs>>}

\* API.get_available_statements, the reply arriving
call_get_available_statements ==
    /\ pc = "idle"
    /\ \E json \in FlatResponses(IndexCodes, MaxRecords) :
          /\ response' = json
          /\ Finish(get_available_statements(json))
    /\ call' = "get_available_statements"
    /\ UNCHANGED <<fetch_locals, items>>

\* API.get_available_statements, the request failing in the transport
call_get_available_statements_fails ==
    /\ pc = "idle"
    /\ Finish(Raise("TransportError"))
    /\ call' = "get_available_statements"
    /\ UNCHANGED <<response, fetch_locals, items>>

NextIndex == call_get_available_statements \/ call_get_available_statements_fails

SpecIndex == Init /\ [][NextIndex]_vars

---------------------------------------------------------------------------
(* get_standardised_financial_statement *)

\* the default of the parameter `years`
DefaultYears == 5

\* a scan that takes the last entry of the directory without reading its periods
scan_last_entry(bs, fs_years, index, seen) ==
    IF fs_years = <<>>
    THEN [t |-> "raise", e |-> "IndexError", inspected |-> seen]
    ELSE [t |-> "found", end_index |-> index, inspected |-> Append(seen, index)]

\* lines 202-209: the scan from fs_years[-1] backward; `seen` lists the
\* indices read so far
RECURSIVE scan(_, _, _, _)
scan(bs, fs_years, index, seen) ==
    IF -index > Len(fs_years)
    THEN [t |-> "raise", e |-> "IndexError", inspected |-> seen]
    ELSE IF ~not_in(PStr(s_Q4),
                    getattr(getattr(bs, fs_years[Len(fs_years) + index + 1].s),
                            KeysAttr).xs)
    THEN [t |-> "found", end_index |-> index, inspected |-> Append(seen, index)]
    ELSE Bind(Append(seen, index), LAMBDA read : scan(bs, fs_years, index - 1, read))

\* xs[start:stop] for 0 <= start
slice(xs, start, stop) ==
    SubSeq(xs, start + 1, IF stop > Len(xs) THEN Len(xs) ELSE stop)

\* lines 213-216
slice_end_index(fs_years, index) == Len(fs_years) + index + 1

\* a window that always starts at the first entry of the directory
slice_start_at_zero(fs_years, index, years) == 0

slice_start_index(fs_years, index, years) ==
    IF slice_end_index(fs_years, index) > years
    THEN slice_end_index(fs_years, index) - years
    ELSE 0

\* line 218
year_window(fs_years, index, years) ==
    slice(fs_years, slice_start_index(fs_years, index, years),
          slice_end_index(fs_years, index))

\* line 221: [int(yr.split("_")[-1]) for yr in valid_year_keys]
parse_years(keys) ==
    IF \A i \in 1..Len(keys) : IsDecimal(split_last(keys[i].s))
    THEN PList([i \in 1..Len(keys) |-> int(split_last(keys[i].s))])
    ELSE Raise("ValueError")

\* line 240
fresh_statement ==
    PDict(<<Entry(PStr(s_dates), PList(<<>>)), Entry(PStr(s_line_items), PDict(<<>>))>>)

\* lines 238-241: the loops from statement type number k on, up to the next
\* request or past the last statement type
RECURSIVE enter(_, _, _, _)
enter(f, fin, years, k) ==
    IF k > Len(fin) THEN [f |-> f, fs_pos |-> k]
    ELSE Bind(assign(f, fin[k], fresh_statement), LAMBDA g :
         IF years = <<>> THEN enter(g, fin, years, k + 1)
         ELSE [f |-> g, fs_pos |-> k])

\* params asking for the full-year period of every statement type
params_full_year(fs, yr) == [stype |-> fs, ptype |-> PStr(s_FY), fyear |-> PInt(yr)]

\* lines 243-248
params(fs, yr) ==
    [stype |-> fs,
     ptype |-> IF fs = PStr(s_bs) THEN PStr(s_Q4) ELSE PStr(s_FY),
     fyear |-> PInt(yr)]

\* the loops go on from statement type number k with dict f: the next request
\* is issued, or the result returned
Proceed(f, fin, years, k, y) ==
    IF k > Len(fin)
    THEN /\ Finish(APIResponseObject(f))
         /\ f_statements' = f
         /\ fs_pos' = k
         /\ yr_pos' = y
         /\ UNCHANGED requests
    ELSE /\ pc' = "awaiting"
         /\ f_statements' = f
         /\ fs_pos' = k
         /\ yr_pos' = y
         /\ requests' = Append(requests, params(fin[k], years[y]))
         /\ UNCHANGED <<result, outcome>>

\* an exception leaves the call where the loops stand
Abort(e) ==
    /\ Finish(e)
    /\ UNCHANGED <<f_statements, fs_pos, yr_pos, requests>>

\* lines 196-250: the call, the statements/list reply, the scan, the window
\* and the first request
call_standardised(flats, counts, inputs) ==
    /\ pc = "idle"
    /\ call' = "get_standardised_financial_statement"
    /\ \E json \in flats, years \in counts, given \in inputs :
       \E listed \in {get_available_statements(json)} :
          /\ response' = json
          /\ year_count' = years
          /\ supplied' = given
          /\ UNCHANGED <<replies, items>>
          /\ IF IsRaise(listed) \/ ~hasattr(listed, s_bs)
             THEN /\ Abort(IF IsRaise(listed) THEN listed ELSE Raise("AttributeError"))
                  /\ UNCHANGED <<available_statements, end_index, inspected,
                                 valid_year_keys, valid_years, fin_statements_input>>
             ELSE \E fs_years \in {getattr(getattr(listed, s_bs), KeysAttr).xs} :
                  \E found \in {scan(getattr(listed, s_bs), fs_years, -1, <<>>)} :
                    /\ available_statements' = listed
                    /\ inspected' = found.inspected
                    /\ IF IsRaise(found)
                       THEN /\ Abort(Raise(found.e))
                            /\ UNCHANGED <<end_index, valid_year_keys, valid_years,
                                           fin_statements_input>>
                       ELSE \E window \in {year_window(fs_years, found.end_index, years)} :
                            \E parsed \in {parse_years(window)} :
                              /\ end_index' = found.end_index
                              /\ valid_year_keys' = window
                              /\ IF IsRaise(parsed)
                                 THEN /\ Abort(parsed)
                                      /\ UNCHANGED <<valid_years, fin_statements_input>>
                                 ELSE \E fin \in {IF given = PNone
                                                  THEN getattr(listed, KeysAttr).xs
                                                  ELSE given.xs} :
                                      \E first \in {enter(PDict(<<>>), fin, parsed.xs, 1)} :
                                        /\ valid_years' = parsed.xs
                                        /\ fin_statements_input' = fin
                                        /\ Proceed(first.f, fin, parsed.xs,
                                                   first.fs_pos, 1)

\* the statements/list request fails in the transport
call_standardised_fails ==
    /\ pc = "idle"
    /\ call' = "get_standardised_financial_statement"
    /\ Finish(Raise("TransportError"))
    /\ UNCHANGED <<response, fetch_locals, items>>

\* dateutil.parser.parse(text), for the texts of the replies: a date written
\* YYYY-MM-DD is read, any other text is refused
IsIsoDate(s) ==
    /\ Len(s) = 10
    /\ s[5] = "-" /\ s[8] = "-"
    /\ \A i \in {1, 2, 3, 4, 6, 7, 9, 10} : s[i] \in DigitChars

parse(text) ==
    IF text.t = "str" /\ IsIsoDate(text.s)
    THEN PDate(int(SubSeq(text.s, 1, 4)), int(SubSeq(text.s, 6, 7)),
               int(SubSeq(text.s, 9, 10)))
    ELSE Raise("DateFormatError")

\* int(x) for an int or a str
to_int(x) ==
    IF x.t = "int" THEN x
    ELSE IF x.t = "str" /\ IsDecimal(x.s) THEN PInt(int(x.s))
    ELSE Raise("ValueError")

\* a value kept as the reply gives it, falsy or not
keep_value(x) == x

\* x if x else None
or_none(x) == IF Truthy(x) THEN x ELSE PNone

\* lines 268-271
new_line_item(line) ==
    PDict(<<Entry(PStr(s_uid), subscript(line, PStr(s_uid))),
            Entry(PStr(s_title), subscript(line, PStr(s_standardisedName))),
            Entry(PStr(s_parent_tid), subscript(line, PStr(s_parent_tid))),
            Entry(PStr(s_tid), subscript(line, PStr(s_tid))),
            Entry(PStr(s_display_level), subscript(line, PStr(s_displayLevel))),
            Entry(PStr(s_values), PList(<<>>))>>)

\* lines 266-271: the entry of a title is made the first time it is met
with_line_item(line_items, line) ==
    IF has_key(line_items, subscript(line, PStr(s_standardisedName)))
    THEN line_items
    ELSE assign(line_items, subscript(line, PStr(s_standardisedName)),
                new_line_item(line))

\* lines 273-280: the value record of one line
value_record(line, _date) ==
    LET value_assigned == subscript(line, PStr(s_valueAssigned))
    IN Then(IF Truthy(value_assigned) THEN to_int(value_assigned) ELSE PNone,
            LAMBDA assigned :
            PDict(<<Entry(PStr(s_value_calculated),
                          or_none(subscript(line, PStr(s_valueCalculated)))),
                    Entry(PStr(s_value_chosen),
                          or_none(subscript(line, PStr(s_valueChosen)))),
                    Entry(PStr(s_value_assigned), assigned),
                    Entry(PStr(s_date), _date)>>))

\* xs.append(x) for the list under `key` of dict d
append_at(d, key, x) == assign(d, key, PList(Append(subscript(d, key).xs, x)))

\* lines 258-280: one line of a reply, for the line items of a statement type
add_line(line_items, line, _date) ==
    LET title == subscript(line, PStr(s_standardisedName))
    IN Bind(with_line_item(line_items, line), LAMBDA known :
       Then(value_record(line, _date), LAMBDA record :
            assign(known, title, append_at(subscript(known, title), PStr(s_values), record))))

RECURSIVE add_lines(_, _, _)
add_lines(line_items, lines, _date) ==
    IF lines = <<>> THEN line_items
    ELSE Then(add_line(line_items, lines[1], _date), LAMBDA next :
         Bind(Tail(lines), LAMBDA rest : add_lines(next, rest, _date)))

\* lines 253-280: the reply to the request for statement type fs
process_reply(f, fs, _response_json) ==
    Then(parse(subscript(_response_json, PStr(s_periodEndDate))), LAMBDA _date :
    Bind(append_at(subscript(f, fs), PStr(s_dates), _date), LAMBDA dated :
    Then(add_lines(subscript(dated, PStr(s_line_items)),
                   subscript(_response_json, PStr(s_values)).xs, _date),
         LAMBDA line_items : assign(f, fs, assign(dated, PStr(s_line_items), line_items)))))

selection == <<call, response, available_statements, end_index, inspected,
               valid_year_keys, valid_years, year_count, supplied,
               fin_statements_input, items>>

\* lines 249-283: the reply to the request in flight arrives and is processed,
\* then the next request is issued or the result returned
reply(replied) ==
    /\ pc = "awaiting"
    /\ \E _response_json \in replied :
       \E processed \in {process_reply(f_statements, fin_statements_input[fs_pos],
                                       _response_json)} :
          /\ replies' = Append(replies, _response_json)
          /\ IF IsRaise(processed) THEN Abort(processed)
             ELSE IF yr_pos < Len(valid_years)
             THEN Proceed(processed, fin_statements_input, valid_years, fs_pos, yr_pos + 1)
             ELSE \E next \in {enter(processed, fin_statements_input, valid_years,
                                     fs_pos + 1)} :
                     Proceed(next.f, fin_statements_input, valid_years, next.fs_pos, 1)
    /\ UNCHANGED selection

\* a transport failure after which the same request is issued again
reply_fails_and_retries ==
    /\ pc = "awaiting"
    /\ replies' = Append(replies, Raise("TransportError"))
    /\ requests' = Append(requests, requests[Len(requests)])
    /\ UNCHANGED <<pc, result, outcome, f_statements, fs_pos, yr_pos>>
    /\ UNCHANGED selection

\* line 249: the request in flight fails in the transport
reply_fails ==
    /\ pc = "awaiting"
    /\ replies' = Append(replies, Raise("TransportError"))
    /\ Abort(Raise("TransportError"))
    /\ UNCHANGED selection

MaxYearCount == 2

\* the values of the argument `years`
YearCounts == (0..MaxYearCount) \cup {DefaultYears}

\* the statements/list replies: bs alone, bs after another statement type, no bs
FetchFlats ==
    { PDict(<<Entry(PStr(s_bs), PList(rs))>>) : rs \in RecordLists(MaxRecords) }
    \cup { PDict(<<Entry(PStr(s_pl), PList(<<Record(2020, s_FY)>>)),
                   Entry(PStr(s_bs), PList(rs))>>) : rs \in RecordLists(MaxRecords) }
    \cup { PDict(<<Entry(PStr(s_pl), PList(<<Record(2020, s_FY)>>))>>) }

\* the values of the argument fin_statements_input
FetchInputs ==
    { PNone, PList(<<>>), PList(<<PStr(s_pl)>>), PList(<<PStr(s_pl), PStr(s_bs)>>),
      PList(<<PStr(s_bs), PStr(s_bs)>>),
      PList(<<PStr(s_bs), PStr(s_pl), PStr(s_cf)>>) }

\* a reply to a standardised request
Body(periodEndDate, lines) ==
    PDict(<<Entry(PStr(s_periodEndDate), PStr(periodEndDate)),
            Entry(PStr(s_values), PList(lines))>>)

FetchBodies == {Body(d_2019_12_31, <<>>), Body(d_n_a, <<>>)}

NextFetch ==
    \/ call_standardised(FetchFlats, YearCounts, FetchInputs)
    \/ call_standardised_fails
    \/ reply(FetchBodies)
    \/ reply_fails

SpecFetch == Init /\ [][NextFetch]_vars

---------------------------------------------------------------------------
(* get_aggregated_shares_outstanding *)

\* if key not in d: d[key] = empty
ensure(d, key, empty) == IF has_key(d, key) THEN d ELSE assign(d, key, empty)

\* a branch test that sends every record to the point-in-time lists
is_period_never(measure) == FALSE

\* line 318
is_period(measure) == measure = PStr(s_period)

\* lines 326-329 and 338-341: the entry of one record
share_entry(item, date) ==
    LET fyear == subscript(item, PStr(s_fyear))
    IN Then(IF Truthy(fyear) THEN to_int(fyear) ELSE PNone, LAMBDA year :
            PDict(<<Entry(PStr(s_value), subscript(item, PStr(s_value))),
                    Entry(PStr(s_date), date),
                    Entry(PStr(s_fyear), year)>>))

\* lines 320-329: by_measure is items[figure]
nest_by_period(by_measure, measure, _type, period, entry) ==
    Bind(ensure(subscript(by_measure, measure), _type, PDict(<<>>)), LAMBDA by_type :
    Bind(ensure(subscript(by_type, _type), period, PList(<<>>)), LAMBDA by_period :
         assign(by_measure, measure,
                assign(by_type, _type, append_at(by_period, period, entry)))))

\* lines 335-341: by_measure is items[figure]
nest_point_in_time(by_measure, measure, _type, entry) ==
    Bind(ensure(subscript(by_measure, measure), _type, PList(<<>>)), LAMBDA by_type :
         assign(by_measure, measure, append_at(by_type, _type, entry)))

\* lines 303-341: one record of the reply
reshape_item(d, item) ==
    LET figure == subscript(item, PStr(s_figure))
        measure == get_key_name(subscript(item, PStr(s_measure)))
        period == subscript(item, PStr(s_period))
        _type == subscript(item, PStr(s_type))
    IN Then(parse(subscript(item, PStr(s_date))), LAMBDA date :
       Bind(ensure(d, figure, PDict(<<>>)), LAMBDA with_figure :
       Bind(ensure(subscript(with_figure, figure), measure, PDict(<<>>)),
            LAMBDA by_measure :
       Then(share_entry(item, date), LAMBDA entry :
            assign(with_figure, figure,
                   IF is_period(measure)
                   THEN nest_by_period(by_measure, measure, _type, period, entry)
                   ELSE nest_point_in_time(by_measure, measure, _type, entry))))))

\* the loop of line 302: the dict when the loop ends, and the exception that
\* ended it, if any
Loop(d, raised) == [t |-> "loop", items |-> d, raised |-> raised]

RECURSIVE reshape_items(_, _)
reshape_items(d, records) ==
    IF records = <<>> THEN Loop(d, NoResult)
    ELSE Bind(reshape_item(d, records[1]), LAMBDA next :
         IF IsRaise(next) THEN Loop(d, next)
         ELSE Bind(Tail(records), LAMBDA rest : reshape_items(next, rest)))

\* one record of the shares/aggregated reply
ShareRecord(figure, measure, _type, period, fyear, date, value) ==
    PDict(<<Entry(PStr(s_figure), PStr(figure)), Entry(PStr(s_measure), PStr(measure)),
            Entry(PStr(s_period), PStr(period)), Entry(PStr(s_fyear), fyear),
            Entry(PStr(s_date), PStr(date)), Entry(PStr(s_value), PInt(value)),
            Entry(PStr(s_type), PStr(_type))>>)

\* the type and period of a record
ShareSlots == {<<s_basic, s_Q1>>, <<s_basic, s_FY>>, <<s_diluted, s_Q1>>}

\* the fyear, date and value of a record
ShareValues ==
    { <<PInt(2019), d_2020_12_31, 1>>, <<PNone, d_2019_12_31, 2>>,
      <<PStr(format(2020)), d_2019_12_31, 3>> }

\* records of one figure in every slot and with every value, records of a
\* second figure, and a record whose date does not parse
ShareRecords ==
    { ShareRecord(s_common, m, slot[1], slot[2], fig[1], fig[2], fig[3]) :
        m \in {s_period, s_point_in_time}, slot \in ShareSlots, fig \in ShareValues }
    \cup { ShareRecord(s_preferred, m, s_basic, s_Q1, PInt(2019), d_2020_12_31, 1) :
             m \in {s_period, s_point_in_time} }
    \cup { ShareRecord(s_common, s_period, s_basic, s_Q1, PInt(0), d_n_a, 4) }

MaxItems == 2

RECURSIVE ShareReplies(_)
ShareReplies(n) ==
    IF n = 0 THEN {<<>>}
    ELSE LET shorter == ShareReplies(n - 1)
         IN shorter \cup
            { Append(rs, r) : rs \in {x \in shorter : Len(x) = n - 1},
                              r \in ShareRecords }

\* lines 300-343, the reply arriving
get_aggregated_shares_outstanding ==
    /\ pc = "idle"
    /\ call' = "get_aggregated_shares_outstanding"
    /\ \E json \in ShareReplies(MaxItems) :
       \E loop \in {reshape_items(PDict(<<>>), json)} :
          /\ response' = PList(json)
          /\ items' = loop.items
          /\ Finish(IF IsRaise(loop.raised) THEN loop.raised
                    ELSE APIResponseObject(loop.items))
    /\ UNCHANGED fetch_locals

\* line 300: the request fails in the transport
get_aggregated_shares_outstanding_fails ==
    /\ pc = "idle"
    /\ call' = "get_aggregated_shares_outstanding"
    /\ Finish(Raise("TransportError"))
    /\ UNCHANGED <<response, fetch_locals, items>>

NextShares ==
    get_aggregated_shares_outstanding \/ get_aggregated_shares_outstanding_fails

SpecShares == Init /\ [][NextShares]_vars

---------------------------------------------------------------------------
(* the fetch loop with line items in the replies *)

\* one line of the `values` of a reply
Line(title, uid, parent_tid, displayLevel, calculated, chosen, assigned) ==
    PDict(<<Entry(PStr(s_standardisedName), PStr(title)),
            Entry(PStr(s_uid), PInt(uid)),
            Entry(PStr(s_parent_tid), PInt(parent_tid)),
            Entry(PStr(s_tid), PInt(uid)),
            Entry(PStr(s_valueCalculated), calculated),
            Entry(PStr(s_valueChosen), chosen),
            Entry(PStr(s_valueAssigned), assigned),
            Entry(PStr(s_displayLevel), PInt(displayLevel))>>)

s_Cash == <<"C", "a", "s", "h">>

s_Debt == <<"D", "e", "b", "t">>

SeriesLines ==
    { Line(s_Cash, 1, 0, 0, PInt(0), PNone, PStr(<<>>)),
      Line(s_Cash, 2, 1, 1, PInt(5), PInt(7), PStr(<<"1", "2">>)),
      Line(s_Debt, 3, 0, 0, PInt(5), PStr(<<>>), PInt(3)) }

MaxLines == 2

RECURSIVE LineLists(_)
LineLists(n) ==
    IF n = 0 THEN {<<>>}
    ELSE LET shorter == LineLists(n - 1)
         IN shorter \cup
            { Append(ls, l) : ls \in {x \in shorter : Len(x) = n - 1},
                              l \in SeriesLines }

SeriesBodies ==
    { Body(d, ls) : d \in {d_2019_12_31, d_2020_12_31}, ls \in LineLists(MaxLines) }
    \cup {Body(d_n_a, <<>>)}

\* pl for one fiscal year and bs for two
SeriesFlats ==
    { PDict(<<Entry(PStr(s_pl), PList(<<Record(2020, s_FY)>>)),
              Entry(PStr(s_bs), PList(<<Record(2019, s_Q4), Record(2020, s_Q4)>>))>>) }

\* one statement type over two years, or two over one year
NextSeries ==
    \/ call_standardised(SeriesFlats, {2}, {PList(<<PStr(s_bs)>>), PList(<<PStr(s_pl)>>)})
    \/ call_standardised(SeriesFlats, {1},
                         {PNone, PList(<<PStr(s_bs), PStr(s_bs)>>)})
    \/ call_standardised_fails
    \/ reply(SeriesBodies)
    \/ reply_fails

SpecSeries == Init /\ [][NextSeries]_vars

---------------------------------------------------------------------------
(* Properties of the index *)

Count(x, xs) == Cardinality({j \in 1..Len(xs) : xs[j] = x})

\* record r of statement type s is found at exactly one path of the index
OnePath(index, s, r) ==
    LET year_index == getattr(index, get_key_name(s).s)
        year_key == get_key_name(subscript(r, PStr(s_fyear)))
        period == subscript(r, PStr(s_period))
    IN /\ Count(year_key, getattr(year_index, KeysAttr).xs) = 1
       /\ LET period_index == getattr(year_index, year_key.s)
          IN /\ Count(period, getattr(period_index, KeysAttr).xs) = 1
             /\ hasattr(period_index, period.s)
             /\ LET stored == getattr(period_index, period.s)
                IN /\ stored.t = "obj"
                   /\ getattr(stored, s_fyear) = subscript(r, PStr(s_fyear))
                   /\ getattr(stored, s_period) = period

\* C1: after get_available_statements returns for a non-empty flat reply,
\* every record r listed under statement type s is reachable at exactly one
\* path s -> normalised fyear -> period: the year key occurs once in the
\* directory of s, the period name once in the directory of that year, and
\* the value at the path is a record with that fyear and period; also when
\* two records share statement type, fyear and period.
C1_ExactlyOnePath ==
    (call = "get_available_statements" /\ pc = "done" /\ response # NoResult
        /\ \E i \in 1..Len(response.es) : response.es[i].v.xs # <<>>)
    => /\ outcome = "returned"
       /\ \A i \in 1..Len(response.es) :
             \A j \in 1..Len(response.es[i].v.xs) :
                OnePath(result, response.es[i].k, response.es[i].v.xs[j])

---------------------------------------------------------------------------
(* Properties of the year selection and of the fetch loop *)

\* the bs year directory of the index
BsYears == getattr(getattr(available_statements, s_bs), KeysAttr).xs

\* the period directory of bs year `key` lists "Q4"
HasQ4(key) ==
    \E j \in 1..Len(getattr(getattr(getattr(available_statements, s_bs), key.s),
                            KeysAttr).xs) :
       getattr(getattr(getattr(available_statements, s_bs), key.s), KeysAttr).xs[j]
           = PStr(s_Q4)

\* the fiscal year a directory key stands for
YearOf(key) == int(SubSeq(key.s, 2, Len(key.s)))

\* the index was built and the scan found an end year
Selected == available_statements # NoResult /\ end_index < 0

\* position of the end year in the bs year directory, from 1
EndPosition == Len(BsYears) + end_index + 1

EndKey == BsYears[EndPosition]

SomeQ4 == available_statements # NoResult /\ \E i \in 1..Len(BsYears) : HasQ4(BsYears[i])

EqualWidth == \A i, j \in 1..Len(BsYears) : Len(BsYears[i].s) = Len(BsYears[j].s)

Least(a, b) == IF a <= b THEN a ELSE b

\* the bs records of the statements/list reply
BsRecords == subscript(response, PStr(s_bs)).xs

\* the window is the run of Least(n, EndPosition) directory keys ending at the
\* end year, and each parsed year is the fyear its key was made from
WindowIsRun ==
    LET W == Len(valid_year_keys)
    IN /\ W = Least(year_count, EndPosition)
       /\ \A i \in 1..W : valid_year_keys[i] = BsYears[EndPosition - W + i]
       /\ Len(valid_years) = W
       /\ \A i \in 1..W :
             /\ <<"_">> \o format(valid_years[i]) = valid_year_keys[i].s
             /\ \E j \in 1..Len(BsRecords) :
                   subscript(BsRecords[j], PStr(s_fyear)) = PInt(valid_years[i])

Fetched ==
    call = "get_standardised_financial_statement" /\ pc = "done" /\ outcome = "returned"

\* the request for statement type fs and fiscal year yr
RequestFor(fs, yr) ==
    [stype |-> fs,
     ptype |-> PStr(IF fs.s = s_bs THEN s_Q4 ELSE s_FY),
     fyear |-> PInt(yr)]

\* the requests go out one at a time, and after a run without failure request
\* number (k-1)*|window| + y is the one for the k-th requested statement type
\* and the y-th window year
OnePerPosition ==
    /\ Len(requests) - Len(replies) = (IF pc = "awaiting" THEN 1 ELSE 0)
    /\ Fetched =>
          /\ Len(requests) = Len(fin_statements_input) * Len(valid_years)
          /\ \A k \in 1..Len(fin_statements_input) :
                \A y \in 1..Len(valid_years) :
                   requests[(k - 1) * Len(valid_years) + y]
                      = RequestFor(fin_statements_input[k], valid_years[y])
          /\ fin_statements_input =
                (IF supplied = PNone
                 THEN [i \in 1..Len(response.es) |-> response.es[i].k]
                 ELSE supplied.xs)

BsPlCf == PList(<<PStr(s_bs), PStr(s_pl), PStr(s_cf)>>)

Failed(r) == IsRaise(r) \/ IsRaise(parse(subscript(r, PStr(s_periodEndDate))))

FailureOf(r) == IF IsRaise(r) THEN r.e ELSE "DateFormatError"

\* C5: if the k-th request fails in the transport or the periodEndDate of its
\* reply fails to parse, the call ends in that error: the k-th request is the
\* last request ever issued (no retry, none for the remaining pairs) and no
\* result is returned.
C5_FailureEndsTheCall ==
    \A k \in 1..Len(replies) :
       Failed(replies[k]) =>
          /\ k = Len(replies)
          /\ Len(requests) = k
          /\ pc = "done"
          /\ outcome = FailureOf(replies[k])
          /\ result = NoResult

\* a request after the first failed while requests for further pairs remained
C5_FailedMidway ==
    /\ Len(replies) >= 2
    /\ Failed(replies[Len(replies)])
    /\ Len(replies) < Len(fin_statements_input) * Len(valid_years)
    /\ f_statements # PDict(<<>>)

\* a statement type of the statements/list reply has an empty record list
EmptyRecordList ==
    response # NoResult /\ \E i \in 1..Len(response.es) : response.es[i].v.xs = <<>>

\* the index was built and no bs fiscal year has "Q4"
NoQ4 == available_statements # NoResult /\ \A i \in 1..Len(BsYears) : ~HasQ4(BsYears[i])

---------------------------------------------------------------------------
(* Properties of the line-item series *)

\* the replies to the requests for statement type fs among the first n
RECURSIVE RepliesFor(_, _)
RepliesFor(fs, n) ==
    IF n = 0 THEN <<>>
    ELSE RepliesFor(fs, n - 1) \o (IF requests[n].stype = fs THEN <<replies[n]>> ELSE <<>>)

\* the replies of the k-th pass of the loop over the requested list
PassReplies(k) == SubSeq(replies, (k - 1) * Len(valid_years) + 1, k * Len(valid_years))

\* the last position of statement type fs in the requested list
LastPass(fs) ==
    CHOOSE k \in 1..Len(fin_statements_input) :
       /\ fin_statements_input[k] = fs
       /\ \A j \in (k + 1)..Len(fin_statements_input) : fin_statements_input[j] # fs

\* the lines of the replies rs in fetch order, each with the date of its reply
RECURSIVE Occurrences(_)
Occurrences(rs) ==
    IF rs = <<>> THEN <<>>
    ELSE LET last == rs[Len(rs)]
             lines == subscript(last, PStr(s_values)).xs
         IN Occurrences(SubSeq(rs, 1, Len(rs) - 1))
            \o [i \in 1..Len(lines) |->
                  [line |-> lines[i],
                   date |-> parse(subscript(last, PStr(s_periodEndDate)))]]

TitleOf(o) == subscript(o.line, PStr(s_standardisedName))

NullIfFalsy(v) == IF v = PNone \/ v = PInt(0) \/ v = PStr(<<>>) THEN PNone ELSE v

\* the value record expected for one occurrence of a title
ExpectedRecord(o) ==
    LET assigned == NullIfFalsy(subscript(o.line, PStr(s_valueAssigned)))
    IN PDict(<<Entry(PStr(s_value_calculated),
                     NullIfFalsy(subscript(o.line, PStr(s_valueCalculated)))),
               Entry(PStr(s_value_chosen),
                     NullIfFalsy(subscript(o.line, PStr(s_valueChosen)))),
               Entry(PStr(s_value_assigned),
                     IF assigned.t = "str" THEN PInt(int(assigned.s)) ELSE assigned),
               Entry(PStr(s_date), o.date)>>)

\* the series recorded for statement type fs is the one the replies rs give:
\* the dates of the replies, an entry for each title seen and no other, the
\* uid, parent and display level of the first occurrence of the title, and
\* one value record per occurrence in fetch order
SeriesMatches(fs, rs) ==
    LET occ == Occurrences(rs)
        series == subscript(f_statements, fs)
        line_items == subscript(series, PStr(s_line_items))
    IN /\ subscript(series, PStr(s_dates))
            = PList([i \in 1..Len(rs) |-> parse(subscript(rs[i], PStr(s_periodEndDate)))])
       /\ \A i \in 1..Len(line_items.es) :
             \E j \in 1..Len(occ) : TitleOf(occ[j]) = line_items.es[i].k
       /\ \A j \in 1..Len(occ) :
             LET title == TitleOf(occ[j])
                 all == SelectSeq(occ, LAMBDA o : TitleOf(o) = title)
             IN /\ has_key(line_items, title)
                /\ LET item == subscript(line_items, title)
                   IN /\ subscript(item, PStr(s_title)) = title
                      /\ subscript(item, PStr(s_uid)) = subscript(all[1].line, PStr(s_uid))
                      /\ subscript(item, PStr(s_parent_tid))
                            = subscript(all[1].line, PStr(s_parent_tid))
                      /\ subscript(item, PStr(s_display_level))
                            = subscript(all[1].line, PStr(s_displayLevel))
                      /\ subscript(item, PStr(s_values))
                            = PList([i \in 1..Len(all) |-> ExpectedRecord(all[i])])

\* C10 as stated: after a successful call, for every requested statement type
\* and every title seen in its responses, uid, parent and display level are
\* those of the first response with the title, and the values hold one record
\* per occurrence of the title across the responses, in fetch order, with the
\* parsed date of its response and falsy values replaced by null.
C10_SeriesOfAllResponses ==
    Fetched =>
       \A k \in 1..Len(fin_statements_input) :
          SeriesMatches(fin_statements_input[k],
                        RepliesFor(fin_statements_input[k], Len(requests)))

\* C10: after a successful call, for every requested statement type and every
\* title seen in the responses of the last pass over that type (a type listed
\* again is fetched again and its series started afresh), uid, parent and
\* display level are those of the first of these responses with the title, and
\* the values hold one record per occurrence of the title across these
\* responses, in fetch order, with the parsed date of its response, falsy
\* calculated, chosen and assigned values replaced by null, and a non-falsy
\* assigned value converted to an integer.
C10_SeriesOfLastPass ==
    Fetched =>
       \A k \in 1..Len(fin_statements_input) :
          SeriesMatches(fin_statements_input[k],
                        PassReplies(LastPass(fin_statements_input[k])))

\* a title came in the responses for both years with different uid, and one of
\* its values was falsy
C10_TitleSeenTwice ==
    /\ Fetched
    /\ Len(fin_statements_input) = 1
    /\ Len(replies) = 2
    /\ \E i \in 1..Len(subscript(replies[1], PStr(s_values)).xs) :
       \E j \in 1..Len(subscript(replies[2], PStr(s_values)).xs) :
          LET first == subscript(replies[1], PStr(s_values)).xs[i]
              later == subscript(replies[2], PStr(s_values)).xs[j]
          IN /\ subscript(first, PStr(s_standardisedName))
                   = subscript(later, PStr(s_standardisedName))
             /\ subscript(first, PStr(s_uid)) # subscript(later, PStr(s_uid))
             /\ subscript(first, PStr(s_valueCalculated)) = PInt(0)

---------------------------------------------------------------------------
(* Properties of the shares reshaping *)

\* the measure of record r after normalisation
MeasureOf(r) == get_key_name(subscript(r, PStr(s_measure)))

\* the path of the list record r belongs to
PathOf(r) ==
    IF MeasureOf(r) = PStr(s_period)
    THEN <<subscript(r, PStr(s_figure)), MeasureOf(r), subscript(r, PStr(s_type)),
           subscript(r, PStr(s_period))>>
    ELSE <<subscript(r, PStr(s_figure)), MeasureOf(r), subscript(r, PStr(s_type))>>

\* the path leads through dicts of d
RECURSIVE HasPath(_, _)
HasPath(d, path) ==
    IF path = <<>> THEN TRUE
    ELSE d.t = "dict" /\ has_key(d, path[1]) /\ HasPath(subscript(d, path[1]), Tail(path))

RECURSIVE At(_, _)
At(d, path) == IF path = <<>> THEN d ELSE At(subscript(d, path[1]), Tail(path))

\* the entry expected for record r
EntryFor(r) ==
    LET fyear == subscript(r, PStr(s_fyear))
    IN PDict(<<Entry(PStr(s_value), subscript(r, PStr(s_value))),
               Entry(PStr(s_date), parse(subscript(r, PStr(s_date)))),
               Entry(PStr(s_fyear),
                     IF fyear = PNone \/ fyear = PInt(0) \/ fyear = PStr(<<>>) THEN PNone
                     ELSE IF fyear.t = "str" THEN PInt(int(fyear.s))
                     ELSE fyear)>>)

\* the entries of the records of the reply that belong to the list at `path`
Contributions(path) ==
    LET members == SelectSeq(response.xs, LAMBDA r : PathOf(r) = path)
    IN [i \in 1..Len(members) |-> EntryFor(members[i])]

\* the number of entries over all lists nested in d
RECURSIVE TotalEntries(_)
TotalEntries(d) ==
    IF d.t = "list" THEN Len(d.xs)
    ELSE IF d.es = <<>> THEN 0
    ELSE TotalEntries(d.es[1].v) + TotalEntries(PDict(Tail(d.es)))

\* C7: when get_aggregated_shares_outstanding returns, every list of `items`
\* holds exactly the entries {value, parsed date, integer-or-null fyear} of
\* the records of its path, in the order of the reply: the path is figure ->
\* measure -> type -> period when the normalised measure is "period" and
\* figure -> measure -> type otherwise; and the entries of all lists together
\* are as many as the records.
C7_OneEntryPerRecord ==
    (call = "get_aggregated_shares_outstanding" /\ outcome = "returned") =>
       /\ \A i \in 1..Len(response.xs) :
             /\ HasPath(items, PathOf(response.xs[i]))
             /\ At(items, PathOf(response.xs[i]))
                   = PList(Contributions(PathOf(response.xs[i])))
       /\ TotalEntries(items) = Len(response.xs)

\* two different records went into one list under measure "period", the later
\* fiscal year first
C7_TwoInOneList ==
    /\ call = "get_aggregated_shares_outstanding"
    /\ outcome = "returned"
    /\ Len(response.xs) >= 2
    /\ MeasureOf(response.xs[1]) = PStr(s_period)
    /\ PathOf(response.xs[1]) = PathOf(response.xs[2])
    /\ subscript(response.xs[1], PStr(s_fyear)) = PStr(format(2020))
    /\ subscript(response.xs[2], PStr(s_fyear)) = PInt(2019)

---------------------------------------------------------------------------
(* Properties of the mapper *)

\* the keys of every mapping of a JSON value stay distinct after get_key_name
RECURSIVE NoCollision(_)
NoCollision(json) ==
    IF json.t = "dict" THEN
        /\ \A i, j \in 1..Len(json.es) :
              get_key_name(json.es[i].k) = get_key_name(json.es[j].k) => i = j
        /\ \A i \in 1..Len(json.es) : NoCollision(json.es[i].v)
    ELSE IF json.t = "list" THEN \A i \in 1..Len(json.xs) : NoCollision(json.xs[i])
    ELSE TRUE

\* node is the Node of json: at every mapping the field directory lists the
\* normalised keys in insertion order and each name leads to the entry's Node
RECURSIVE Conforms(_, _)
Conforms(node, json) ==
    IF json.t = "dict" THEN
        /\ node.t = "obj"
        /\ hasattr(node, KeysAttr)
        /\ getattr(node, KeysAttr) =
               PList([i \in 1..Len(json.es) |-> get_key_name(json.es[i].k)])
        /\ \A i \in 1..Len(json.es) :
              LET name == get_key_name(json.es[i].k).s
              IN hasattr(node, name) /\ Conforms(getattr(node, name), json.es[i].v)
    ELSE IF json.t = "list" THEN
        /\ node.t = "list"
        /\ Len(node.xs) = Len(json.xs)
        /\ \A i \in 1..Len(json.xs) :
              IF json.xs[i].t = "dict" THEN Conforms(node.xs[i], json.xs[i])
              ELSE node.xs[i] = json.xs[i]
    ELSE node = json

\* C8: for a JSON mapping whose keys do not collide after normalisation, at
\* every nesting level, the Node's field directory is the sequence of the
\* normalised keys in insertion order and each directory name looks up the
\* recursively built value of its entry.
C8_RoundTrip ==
    (call = "get_id_for_ticker" /\ pc = "done" /\ response # NoResult
        /\ NoCollision(response))
    => (outcome = "returned" /\ Conforms(result, response))

IsLetter(c) == (Ord(c) >= 65 /\ Ord(c) <= 90) \/ (Ord(c) >= 97 /\ Ord(c) <= 122)

ValidIdentifier(s) ==
    /\ s # <<>>
    /\ \A i \in 1..Len(s) : IsLetter(s[i]) \/ s[i] \in DigitChars \/ s[i] = "_"
    /\ s[1] \notin DigitChars

\* every name in the field directory of every object reachable from v is a
\* valid identifier
RECURSIVE AllNamesValid(_)
AllNamesValid(v) ==
    IF v.t = "obj" THEN
        /\ LET keys == getattr(v, KeysAttr)
           IN keys.t = "list" =>
                 \A i \in 1..Len(keys.xs) :
                    keys.xs[i].t = "str" /\ ValidIdentifier(keys.xs[i].s)
        /\ \A a \in (DOMAIN v.d) \ {KeysAttr} : AllNamesValid(v.d[a])
    ELSE IF v.t = "list" THEN \A i \in 1..Len(v.xs) : AllNamesValid(v.xs[i])
    ELSE TRUE

\* C9: every field name in the field directory of every mapping-typed Node
\* reachable from a result of the client is a valid identifier: non-empty,
\* only letters, digits and underscores, not starting with a digit.
C9_ValidIdentifiers ==
    (pc = "done" /\ outcome = "returned") => AllNamesValid(result)

====
